---- MODULE Spec2Model ----
(***************************************************************************)
(* The question/answer ledger of src/src/lib.rs (a NEAR contract).         *)
(*                                                                         *)
(* The contract state is the struct Ledger {stakes, questions}.  The host  *)
(* runs one call at a time to completion; a panic aborts the call, and the *)
(* host then persists nothing of it and drops the promises it created.     *)
(* Every handler is a pure operator from the ledger before the call and    *)
(* the call's inputs to an Outcome: the ledger after the call, the         *)
(* promises (transfers) the call created, and the result, "Ok" or the kind *)
(* of the panic.  The actions commit the outcome of one call each.         *)
(*                                                                         *)
(* Amounts are u128 and ids are u32 in the source.  The deposits of the    *)
(* model are far below 2^128 (as are the host's: an attached deposit is    *)
(* bounded by the total token supply) and the ids far below 2^32, so no    *)
(* addition of the model reaches the width; subtraction is on Int, so that *)
(* a debit below zero would be seen as a negative balance.                 *)
(***************************************************************************)
EXTENDS Integers, Sequences, FiniteSets, TLC

\* src/src/lib.rs:9 and :10
MIN_QUESTION_REWARD == 10
ANSWER_PRICE == 1

\* Bounds of the model.
MaxQuestions == 2      \* questions created
MaxAnswers == 2        \* answers created per question
MaxUpvoted == 2        \* total value attached to successful upvotes
MaxSize == 4           \* questions and answers created plus value upvoted

\* The inputs of the calls.
Accounts == {"alice", "bob"}
Deposits == {0, 1, 9, 10, 11}
Contents == {"How do I look?"}

VARIABLES
    stakes,        \* Ledger.stakes: HashMap<String, u128>, a function on its keys
    questions,     \* Ledger.questions: HashMap<u32, Question>, a function on its keys
    promises,      \* the transfers created by the last call, in order
    last           \* the last call: its operation and its result

vars == <<stakes, questions, promises, last>>

----------------------------------------------------------------------------
\* Helpers

Max(S) == CHOOSE x \in S : \A y \in S : y <= x

\* HashMap::insert
Insert(map, key, value) ==
    [k \in (DOMAIN map) \cup {key} |-> IF k = key THEN value ELSE map[k]]

\* iter().find(|answer| answer.id == answer_id): the index of the first match, 0 for None
FindAnswer(answers, answer_id) ==
    LET hits == {i \in 1..Len(answers) : answers[i].id = answer_id}
    IN  IF hits = {} THEN 0 ELSE CHOOSE i \in hits : \A j \in hits : i <= j

\* The struct Ledger
Ledger == [stakes |-> stakes, questions |-> questions]

\* Ledger::default()
EmptyLedger == [stakes |-> <<>>, questions |-> <<>>]

\* A panic: the host aborts the call; nothing of it is persisted, no promise is kept.
Panic(L, kind) ==
    [stakes |-> L.stakes, questions |-> L.questions, promises |-> <<>>, result |-> kind]

\* Promise::new(account_id).transfer(amount)
Transfer(account_id, amount) == [receiver |-> account_id, amount |-> amount]

----------------------------------------------------------------------------
\* The free functions

\* A slip in the credit: `=` for `+=`, the deposit replaces the balance.
add_stake_Overwrites(stks, account_id, amount) ==
    IF account_id \in DOMAIN stks
    THEN [stks EXCEPT ![account_id] = amount]
    ELSE Insert(stks, account_id, amount)

add_stake(stks, account_id, amount) ==
    IF account_id \in DOMAIN stks
    THEN [stks EXCEPT ![account_id] = @ + amount]
    ELSE Insert(stks, account_id, 0 + amount)

\* A slip in the debit: one more than the amount that was checked and transferred.
award_answer_author_DebitsMore(stks, stake_holder_id, answer, reward) ==
    IF ~(stake_holder_id \in DOMAIN stks)
    THEN [result |-> "InsufficientStake", stakes |-> stks, promises |-> <<>>]
    ELSE IF ~(stks[stake_holder_id] >= reward)
    THEN [result |-> "InsufficientStake", stakes |-> stks, promises |-> <<>>]
    ELSE [result |-> "Ok",
          stakes |-> [stks EXCEPT ![stake_holder_id] = @ - (reward + 1)],
          promises |-> <<Transfer(answer.account_id, reward)>>]

\* A slip in the transfer: the reward is sent to the stake holder, not to the
\* answer's author.
award_answer_author_PaysHolder(stks, stake_holder_id, answer, reward) ==
    IF ~(stake_holder_id \in DOMAIN stks)
    THEN [result |-> "InsufficientStake", stakes |-> stks, promises |-> <<>>]
    ELSE IF ~(stks[stake_holder_id] >= reward)
    THEN [result |-> "InsufficientStake", stakes |-> stks, promises |-> <<>>]
    ELSE [result |-> "Ok",
          stakes |-> [stks EXCEPT ![stake_holder_id] = @ - reward],
          promises |-> <<Transfer(stake_holder_id, reward)>>]

\* The result is [result, stakes, promises]; result "Ok" is the `true` of the source.
\* A slip in the order: the transfer is created before the two checks.
award_answer_author_TransfersFirst(stks, stake_holder_id, answer, reward) ==
    IF ~(stake_holder_id \in DOMAIN stks)
    THEN [result |-> "InsufficientStake", stakes |-> stks,
          promises |-> <<Transfer(answer.account_id, reward)>>]
    ELSE IF ~(stks[stake_holder_id] >= reward)
    THEN [result |-> "InsufficientStake", stakes |-> stks,
          promises |-> <<Transfer(answer.account_id, reward)>>]
    ELSE [result |-> "Ok",
          stakes |-> [stks EXCEPT ![stake_holder_id] = @ - reward],
          promises |-> <<Transfer(answer.account_id, reward)>>]

\* A slip in the checks: the balance is not compared with the reward.
award_answer_author_NoBalanceCheck(stks, stake_holder_id, answer, reward) ==
    IF ~(stake_holder_id \in DOMAIN stks)
    THEN [result |-> "InsufficientStake", stakes |-> stks, promises |-> <<>>]
    ELSE [result |-> "Ok",
          stakes |-> [stks EXCEPT ![stake_holder_id] = @ - reward],
          promises |-> <<Transfer(answer.account_id, reward)>>]

\* A slip in the debit: the reward is transferred but not taken off the balance.
award_answer_author_NoDebit(stks, stake_holder_id, answer, reward) ==
    IF ~(stake_holder_id \in DOMAIN stks)
    THEN [result |-> "InsufficientStake", stakes |-> stks, promises |-> <<>>]
    ELSE IF ~(stks[stake_holder_id] >= reward)
    THEN [result |-> "InsufficientStake", stakes |-> stks, promises |-> <<>>]
    ELSE [result |-> "Ok",
          stakes |-> stks,
          promises |-> <<Transfer(answer.account_id, reward)>>]

award_answer_author(stks, stake_holder_id, answer, reward) ==
    IF ~(stake_holder_id \in DOMAIN stks)
    THEN [result |-> "InsufficientStake", stakes |-> stks, promises |-> <<>>]
    ELSE IF ~(stks[stake_holder_id] >= reward)
    THEN [result |-> "InsufficientStake", stakes |-> stks, promises |-> <<>>]
    ELSE [result |-> "Ok",
          stakes |-> [stks EXCEPT ![stake_holder_id] = @ - reward],
          promises |-> <<Transfer(answer.account_id, reward)>>]

----------------------------------------------------------------------------
\* The methods of Ledger

\* Slips in create_question: the reward recorded is the minimum, not the deposit.
create_question_MinReward(L, signer_id, attached_deposit, content) ==
    IF ~(attached_deposit >= MIN_QUESTION_REWARD)
    THEN Panic(L, "DepositTooLow")
    ELSE
        LET last_question_id ==
                IF DOMAIN L.questions = {} THEN 0 ELSE Max(DOMAIN L.questions)
            question == [content |-> content,
                         reward |-> MIN_QUESTION_REWARD,
                         author_account_id |-> signer_id,
                         answers |-> <<>>]
        IN  [stakes |-> add_stake(L.stakes, signer_id, attached_deposit),
             questions |-> Insert(L.questions, last_question_id + 1, question),
             promises |-> <<>>,
             result |-> "Ok"]

\* The deposit is compared with the price of an answer, not with the minimal reward.
create_question_AnswerPrice(L, signer_id, attached_deposit, content) ==
    IF ~(attached_deposit >= ANSWER_PRICE)
    THEN Panic(L, "DepositTooLow")
    ELSE
        LET last_question_id ==
                IF DOMAIN L.questions = {} THEN 0 ELSE Max(DOMAIN L.questions)
            question == [content |-> content,
                         reward |-> attached_deposit,
                         author_account_id |-> signer_id,
                         answers |-> <<>>]
        IN  [stakes |-> add_stake(L.stakes, signer_id, attached_deposit),
             questions |-> Insert(L.questions, last_question_id + 1, question),
             promises |-> <<>>,
             result |-> "Ok"]

\* The new id is the number of questions of the signer plus 1, not the last id plus 1.
create_question_IdPerAuthor(L, signer_id, attached_deposit, content) ==
    IF ~(attached_deposit >= MIN_QUESTION_REWARD)
    THEN Panic(L, "DepositTooLow")
    ELSE
        LET last_question_id ==
                Cardinality({q \in DOMAIN L.questions :
                                L.questions[q].author_account_id = signer_id})
            question == [content |-> content,
                         reward |-> attached_deposit,
                         author_account_id |-> signer_id,
                         answers |-> <<>>]
        IN  [stakes |-> add_stake(L.stakes, signer_id, attached_deposit),
             questions |-> Insert(L.questions, last_question_id + 1, question),
             promises |-> <<>>,
             result |-> "Ok"]

create_question(L, signer_id, attached_deposit, content) ==
    IF ~(attached_deposit >= MIN_QUESTION_REWARD)
    THEN Panic(L, "DepositTooLow")
    ELSE
        LET last_question_id ==
                IF DOMAIN L.questions = {} THEN 0 ELSE Max(DOMAIN L.questions)
            question == [content |-> content,
                         reward |-> attached_deposit,
                         author_account_id |-> signer_id,
                         answers |-> <<>>]
        IN  [stakes |-> add_stake(L.stakes, signer_id, attached_deposit),
             questions |-> Insert(L.questions, last_question_id + 1, question),
             promises |-> <<>>,
             result |-> "Ok"]

\* A slip in create_answer: the last answer id is taken over all questions.
create_answer_GlobalIds(L, signer_id, attached_deposit, question_id, content) ==
    IF ~(question_id \in DOMAIN L.questions)
    THEN Panic(L, "QuestionNotFound")
    ELSE IF ~(attached_deposit >= ANSWER_PRICE)
    THEN Panic(L, "DepositTooLow")
    ELSE
        LET ids == UNION {{L.questions[q].answers[i].id :
                              i \in 1..Len(L.questions[q].answers)} :
                          q \in DOMAIN L.questions}
            last_answer_id == IF ids = {} THEN 0 ELSE Max(ids)
            answer == [id |-> last_answer_id + 1,
                       content |-> content,
                       account_id |-> signer_id,
                       reward |-> 0,
                       is_correct |-> FALSE]
        IN  [stakes |-> L.stakes,
             questions |-> [L.questions EXCEPT
                                ![question_id].answers = Append(@, answer)],
             promises |-> <<>>,
             result |-> "Ok"]

\* A slip in create_answer: the attached deposit is credited to the signer's stake.
create_answer_CreditsStake(L, signer_id, attached_deposit, question_id, content) ==
    IF ~(question_id \in DOMAIN L.questions)
    THEN Panic(L, "QuestionNotFound")
    ELSE IF ~(attached_deposit >= ANSWER_PRICE)
    THEN Panic(L, "DepositTooLow")
    ELSE
        LET answers == L.questions[question_id].answers
            ids == {answers[i].id : i \in 1..Len(answers)}
            last_answer_id == IF ids = {} THEN 0 ELSE Max(ids)
            answer == [id |-> last_answer_id + 1,
                       content |-> content,
                       account_id |-> signer_id,
                       reward |-> 0,
                       is_correct |-> FALSE]
        IN  [stakes |-> add_stake(L.stakes, signer_id, attached_deposit),
             questions |-> [L.questions EXCEPT
                                ![question_id].answers = Append(@, answer)],
             promises |-> <<>>,
             result |-> "Ok"]

\* A slip in create_answer: the new answer is put in front of the list.
create_answer_Prepends(L, signer_id, attached_deposit, question_id, content) ==
    IF ~(question_id \in DOMAIN L.questions)
    THEN Panic(L, "QuestionNotFound")
    ELSE IF ~(attached_deposit >= ANSWER_PRICE)
    THEN Panic(L, "DepositTooLow")
    ELSE
        LET answers == L.questions[question_id].answers
            ids == {answers[i].id : i \in 1..Len(answers)}
            last_answer_id == IF ids = {} THEN 0 ELSE Max(ids)
            answer == [id |-> last_answer_id + 1,
                       content |-> content,
                       account_id |-> signer_id,
                       reward |-> 0,
                       is_correct |-> FALSE]
        IN  [stakes |-> L.stakes,
             questions |-> [L.questions EXCEPT
                                ![question_id].answers = <<answer>> \o @],
             promises |-> <<>>,
             result |-> "Ok"]

create_answer(L, signer_id, attached_deposit, question_id, content) ==
    IF ~(question_id \in DOMAIN L.questions)
    THEN Panic(L, "QuestionNotFound")
    ELSE IF ~(attached_deposit >= ANSWER_PRICE)
    THEN Panic(L, "DepositTooLow")
    ELSE
        LET answers == L.questions[question_id].answers
            ids == {answers[i].id : i \in 1..Len(answers)}
            last_answer_id == IF ids = {} THEN 0 ELSE Max(ids)
            answer == [id |-> last_answer_id + 1,
                       content |-> content,
                       account_id |-> signer_id,
                       reward |-> 0,
                       is_correct |-> FALSE]
        IN  [stakes |-> L.stakes,
             questions |-> [L.questions EXCEPT
                                ![question_id].answers = Append(@, answer)],
             promises |-> <<>>,
             result |-> "Ok"]

\* Slips in upvote_answer: the upvote is refused once the question has an answer
\* marked correct.
upvote_answer_OpenOnly(L, attached_deposit, question_id, answer_id) ==
    IF ~(attached_deposit > 0)
    THEN Panic(L, "DepositTooLow")
    ELSE IF ~(question_id \in DOMAIN L.questions)
    THEN Panic(L, "QuestionNotFound")
    ELSE
        LET answers == L.questions[question_id].answers
            i == FindAnswer(answers, answer_id)
        IN  IF ~(Cardinality({j \in 1..Len(answers) : answers[j].is_correct = TRUE}) = 0)
            THEN Panic(L, "AlreadyResolved")
            ELSE IF i = 0
            THEN Panic(L, "AnswerNotFound")
            ELSE [stakes |-> L.stakes,
                  questions |-> [L.questions EXCEPT
                                     ![question_id].answers[i].reward =
                                         @ + attached_deposit],
                  promises |-> <<Transfer(answers[i].account_id, attached_deposit)>>,
                  result |-> "Ok"]

\* The reward of the answer grows, but the deposit is not transferred to its author.
upvote_answer_NoTransfer(L, attached_deposit, question_id, answer_id) ==
    IF ~(attached_deposit > 0)
    THEN Panic(L, "DepositTooLow")
    ELSE IF ~(question_id \in DOMAIN L.questions)
    THEN Panic(L, "QuestionNotFound")
    ELSE
        LET answers == L.questions[question_id].answers
            i == FindAnswer(answers, answer_id)
        IN  IF i = 0
            THEN Panic(L, "AnswerNotFound")
            ELSE [stakes |-> L.stakes,
                  questions |-> [L.questions EXCEPT
                                     ![question_id].answers[i].reward =
                                         @ + attached_deposit],
                  promises |-> <<>>,
                  result |-> "Ok"]

upvote_answer(L, attached_deposit, question_id, answer_id) ==
    IF ~(attached_deposit > 0)
    THEN Panic(L, "DepositTooLow")
    ELSE IF ~(question_id \in DOMAIN L.questions)
    THEN Panic(L, "QuestionNotFound")
    ELSE
        LET answers == L.questions[question_id].answers
            i == FindAnswer(answers, answer_id)
        IN  IF i = 0
            THEN Panic(L, "AnswerNotFound")
            ELSE [stakes |-> L.stakes,
                  questions |-> [L.questions EXCEPT
                                     ![question_id].answers[i].reward =
                                         @ + attached_deposit],
                  promises |-> <<Transfer(answers[i].account_id, attached_deposit)>>,
                  result |-> "Ok"]

\* The settlement of the source with one of its checks left out (which = the
\* kind of the panic that can no longer happen).
set_correct_answer_Without(which, L, signer_id, question_id, answer_id) ==
    IF ~(question_id \in DOMAIN L.questions)
    THEN Panic(L, "QuestionNotFound")
    ELSE IF which # "NotAuthor"
            /\ ~(L.questions[question_id].author_account_id = signer_id)
    THEN Panic(L, "NotAuthor")
    ELSE
        LET answers == L.questions[question_id].answers
            question_reward == L.questions[question_id].reward
            i == FindAnswer(answers, answer_id)
        IN  IF which # "AlreadyResolved"
               /\ ~(Cardinality({j \in 1..Len(answers) : answers[j].is_correct = TRUE}) = 0)
            THEN Panic(L, "AlreadyResolved")
            ELSE IF i = 0
            THEN Panic(L, "AnswerNotFound")
            ELSE IF which # "SelfReward" /\ ~(answers[i].account_id # signer_id)
            THEN Panic(L, "SelfReward")
            ELSE
                LET award == award_answer_author(L.stakes, signer_id, answers[i],
                                                 question_reward)
                IN  IF award.result = "Ok"
                    THEN [stakes |-> award.stakes,
                          questions |-> [L.questions EXCEPT
                                             ![question_id].answers[i] =
                                                 [@ EXCEPT !.is_correct = TRUE,
                                                           !.reward = @ + question_reward]],
                          promises |-> award.promises,
                          result |-> "Ok"]
                    ELSE Panic(L, award.result)

set_correct_answer_NoResolvedCheck(L, signer_id, question_id, answer_id) ==
    set_correct_answer_Without("AlreadyResolved", L, signer_id, question_id, answer_id)

set_correct_answer_NoAuthorCheck(L, signer_id, question_id, answer_id) ==
    set_correct_answer_Without("NotAuthor", L, signer_id, question_id, answer_id)

set_correct_answer_NoSelfCheck(L, signer_id, question_id, answer_id) ==
    set_correct_answer_Without("SelfReward", L, signer_id, question_id, answer_id)

\* A slip in the order of the checks: the answer is looked up before the
\* already-selected check.
set_correct_answer_FindsFirst(L, signer_id, question_id, answer_id) ==
    IF ~(question_id \in DOMAIN L.questions)
    THEN Panic(L, "QuestionNotFound")
    ELSE IF ~(L.questions[question_id].author_account_id = signer_id)
    THEN Panic(L, "NotAuthor")
    ELSE
        LET answers == L.questions[question_id].answers
            question_reward == L.questions[question_id].reward
            i == FindAnswer(answers, answer_id)
        IN  IF i = 0
            THEN Panic(L, "AnswerNotFound")
            ELSE IF ~(Cardinality({j \in 1..Len(answers) : answers[j].is_correct = TRUE}) = 0)
            THEN Panic(L, "AlreadyResolved")
            ELSE IF ~(answers[i].account_id # signer_id)
            THEN Panic(L, "SelfReward")
            ELSE
                LET award == award_answer_author(L.stakes, signer_id, answers[i],
                                                 question_reward)
                IN  IF award.result = "Ok"
                    THEN [stakes |-> award.stakes,
                          questions |-> [L.questions EXCEPT
                                             ![question_id].answers[i] =
                                                 [@ EXCEPT !.is_correct = TRUE,
                                                           !.reward = @ + question_reward]],
                          promises |-> award.promises,
                          result |-> "Ok"]
                    ELSE Panic(L, award.result)

\* The already-selected check comes first, before the signer is compared with
\* the question's author.
set_correct_answer_ResolvedFirst(L, signer_id, question_id, answer_id) ==
    IF ~(question_id \in DOMAIN L.questions)
    THEN Panic(L, "QuestionNotFound")
    ELSE
        LET answers == L.questions[question_id].answers
            question_reward == L.questions[question_id].reward
            i == FindAnswer(answers, answer_id)
        IN  IF ~(Cardinality({j \in 1..Len(answers) : answers[j].is_correct = TRUE}) = 0)
            THEN Panic(L, "AlreadyResolved")
            ELSE IF ~(L.questions[question_id].author_account_id = signer_id)
            THEN Panic(L, "NotAuthor")
            ELSE IF i = 0
            THEN Panic(L, "AnswerNotFound")
            ELSE IF ~(answers[i].account_id # signer_id)
            THEN Panic(L, "SelfReward")
            ELSE
                LET award == award_answer_author(L.stakes, signer_id, answers[i],
                                                 question_reward)
                IN  IF award.result = "Ok"
                    THEN [stakes |-> award.stakes,
                          questions |-> [L.questions EXCEPT
                                             ![question_id].answers[i] =
                                                 [@ EXCEPT !.is_correct = TRUE,
                                                           !.reward = @ + question_reward]],
                          promises |-> award.promises,
                          result |-> "Ok"]
                    ELSE Panic(L, award.result)

\* A slip in the settlement: `=` for `+=`, the question's reward replaces the
\* reward of the answer.
set_correct_answer_RewardOverwritten(L, signer_id, question_id, answer_id) ==
    IF ~(question_id \in DOMAIN L.questions)
    THEN Panic(L, "QuestionNotFound")
    ELSE IF ~(L.questions[question_id].author_account_id = signer_id)
    THEN Panic(L, "NotAuthor")
    ELSE
        LET answers == L.questions[question_id].answers
            question_reward == L.questions[question_id].reward
            i == FindAnswer(answers, answer_id)
        IN  IF ~(Cardinality({j \in 1..Len(answers) : answers[j].is_correct = TRUE}) = 0)
            THEN Panic(L, "AlreadyResolved")
            ELSE IF i = 0
            THEN Panic(L, "AnswerNotFound")
            ELSE IF ~(answers[i].account_id # signer_id)
            THEN Panic(L, "SelfReward")
            ELSE
                LET award == award_answer_author(L.stakes, signer_id, answers[i],
                                                 question_reward)
                IN  IF award.result = "Ok"
                    THEN [stakes |-> award.stakes,
                          questions |-> [L.questions EXCEPT
                                             ![question_id].answers[i] =
                                                 [@ EXCEPT !.is_correct = TRUE,
                                                           !.reward = question_reward]],
                          promises |-> award.promises,
                          result |-> "Ok"]
                    ELSE Panic(L, award.result)

set_correct_answer(L, signer_id, question_id, answer_id) ==
    IF ~(question_id \in DOMAIN L.questions)
    THEN Panic(L, "QuestionNotFound")
    ELSE IF ~(L.questions[question_id].author_account_id = signer_id)
    THEN Panic(L, "NotAuthor")
    ELSE
        LET answers == L.questions[question_id].answers
            question_reward == L.questions[question_id].reward
            i == FindAnswer(answers, answer_id)
        IN  IF ~(Cardinality({j \in 1..Len(answers) : answers[j].is_correct = TRUE}) = 0)
            THEN Panic(L, "AlreadyResolved")
            ELSE IF i = 0
            THEN Panic(L, "AnswerNotFound")
            ELSE IF ~(answers[i].account_id # signer_id)
            THEN Panic(L, "SelfReward")
            ELSE
                LET award == award_answer_author(L.stakes, signer_id, answers[i],
                                                 question_reward)
                IN  IF award.result = "Ok"
                    THEN [stakes |-> award.stakes,
                          questions |-> [L.questions EXCEPT
                                             ![question_id].answers[i] =
                                                 [@ EXCEPT !.is_correct = TRUE,
                                                           !.reward = @ + question_reward]],
                          promises |-> award.promises,
                          result |-> "Ok"]
                    ELSE Panic(L, award.result)

----------------------------------------------------------------------------
\* The state machine: one call of the host per step

\* .answers.iter().filter(|ans| ans.is_correct == true).count()
CorrectCount(question) ==
    Cardinality({i \in 1..Len(question.answers) : question.answers[i].is_correct = TRUE})

IsResolved(question) == CorrectCount(question) > 0

\* The value successful upvotes have added to the answers of a question: what
\* each answer holds, less the question's reward if a settlement added it.
RECURSIVE UpvotedSum(_, _)
UpvotedSum(answers, question_reward) ==
    IF answers = <<>> THEN 0
    ELSE Head(answers).reward
             - (IF Head(answers).is_correct THEN question_reward ELSE 0)
             + UpvotedSum(Tail(answers), question_reward)

UpvotedOf(question) == UpvotedSum(question.answers, question.reward)

RECURSIVE UpvotedIn(_, _)
UpvotedIn(qs, ids) ==
    IF ids = {} THEN 0
    ELSE LET q == CHOOSE x \in ids : TRUE
         IN  UpvotedOf(qs[q]) + UpvotedIn(qs, ids \ {q})

TotalUpvoted(qs) == UpvotedIn(qs, DOMAIN qs)

RECURSIVE AnswersIn(_, _)
AnswersIn(qs, ids) ==
    IF ids = {} THEN 0
    ELSE LET q == CHOOSE x \in ids : TRUE
         IN  Len(qs[q].answers) + AnswersIn(qs, ids \ {q})

TotalAnswers(qs) == AnswersIn(qs, DOMAIN qs)

\* The bounds of the model: a call that succeeds must leave the ledger within them.
InBounds(qs) ==
    /\ Cardinality(DOMAIN qs) <= MaxQuestions
    /\ \A q \in DOMAIN qs : Len(qs[q].answers) <= MaxAnswers
    /\ TotalUpvoted(qs) <= MaxUpvoted
    /\ Cardinality(DOMAIN qs) + TotalAnswers(qs) + TotalUpvoted(qs) <= MaxSize

Allowed(outcome) == outcome.result = "Ok" => InBounds(outcome.questions)

\* The ids a call may name: those that exist and one that does not.
QuestionIdsOf(L) ==
    (DOMAIN L.questions)
        \cup {IF DOMAIN L.questions = {} THEN 1 ELSE Max(DOMAIN L.questions) + 1}

AnswerIdsOf(L, q) ==
    IF q \in DOMAIN L.questions
    THEN LET answers == L.questions[q].answers
             ids == {answers[i].id : i \in 1..Len(answers)}
         IN  ids \cup {IF ids = {} THEN 1 ELSE Max(ids) + 1}
    ELSE {1}

QuestionIds == QuestionIdsOf(Ledger)

AnswerIds(q) == AnswerIdsOf(Ledger, q)

Commit(op, outcome) ==
    /\ Allowed(outcome)
    /\ stakes' = outcome.stakes
    /\ questions' = outcome.questions
    /\ promises' = outcome.promises
    /\ last' = [op |-> op, result |-> outcome.result]

Init ==
    /\ stakes = EmptyLedger.stakes
    /\ questions = EmptyLedger.questions
    /\ promises = <<>>
    /\ last = [op |-> "new", result |-> "Ok"]

CreateQuestion(signer_id, attached_deposit, content) ==
    Commit("create_question",
           create_question(Ledger, signer_id, attached_deposit, content))

CreateAnswer(signer_id, attached_deposit, question_id, content) ==
    Commit("create_answer",
           create_answer(Ledger, signer_id, attached_deposit, question_id, content))

UpvoteAnswer(attached_deposit, question_id, answer_id) ==
    Commit("upvote_answer",
           upvote_answer(Ledger, attached_deposit, question_id, answer_id))

SetCorrectAnswer(signer_id, question_id, answer_id) ==
    Commit("set_correct_answer",
           set_correct_answer(Ledger, signer_id, question_id, answer_id))

Next ==
    \/ \E s \in Accounts, d \in Deposits, c \in Contents : CreateQuestion(s, d, c)
    \/ \E s \in Accounts, d \in Deposits, q \in QuestionIds, c \in Contents :
           CreateAnswer(s, d, q, c)
    \/ \E d \in Deposits, q \in QuestionIds : \E a \in AnswerIds(q) : UpvoteAnswer(d, q, a)
    \/ \E s \in Accounts, q \in QuestionIds : \E a \in AnswerIds(q) :
           SetCorrectAnswer(s, q, a)

Spec == Init /\ [][Next]_vars

\* The ledgers that sequences of calls lead to, as a set: the outcomes of every
\* call on a ledger, the ledgers its successful calls leave, and their closure.
Outcomes(L) ==
    {create_question(L, s, d, c) : s \in Accounts, d \in Deposits, c \in Contents}
    \cup {create_answer(L, s, d, q, c) :
              s \in Accounts, d \in Deposits, q \in QuestionIdsOf(L), c \in Contents}
    \cup UNION {{upvote_answer(L, d, q, a) : d \in Deposits, a \in AnswerIdsOf(L, q)} :
                   q \in QuestionIdsOf(L)}
    \cup UNION {{set_correct_answer(L, s, q, a) : s \in Accounts, a \in AnswerIdsOf(L, q)} :
                   q \in QuestionIdsOf(L)}

Successors(L) ==
    {[stakes |-> o.stakes, questions |-> o.questions] :
        o \in {x \in Outcomes(L) : x.result = "Ok" /\ Allowed(x)}}

RECURSIVE Closure(_, _)
Closure(seen, frontier) ==
    IF frontier = {} THEN seen
    ELSE LET new == (UNION {Successors(L) : L \in frontier}) \ seen
         IN  Closure(seen \cup new, new)

ReachableFrom(L) == Closure({L}, {L})

----------------------------------------------------------------------------
\* A second specification: the same calls, started from the ledgers the tests
\* build.  Ledger is a plain struct, and tests::bob_can_answer_alice_question,
\* tests::robin_can_upvote_for_existing_question and
\* tests::question_author_chooses_answer_to_be_rewarded construct it field by
\* field: a question of alice with reward 10 and at most one answer, and
\* stakes that are empty or hold 10 for alice, whatever the questions are.

FixtureAnswers ==
    {<<>>} \cup {<<[id |-> 1, content |-> c, account_id |-> b,
                    reward |-> 0, is_correct |-> FALSE]>> :
                     b \in Accounts, c \in Contents}

FixtureQuestions ==
    {<<[content |-> c, reward |-> 10, author_account_id |-> "alice",
        answers |-> answers]>> : c \in Contents, answers \in FixtureAnswers}

FixtureStakes == {<<>>, [x \in {"alice"} |-> 10]}

Fixtures == {[stakes |-> st, questions |-> qs] : st \in FixtureStakes, qs \in FixtureQuestions}

InitFixture ==
    /\ \E L \in Fixtures : stakes = L.stakes /\ questions = L.questions
    /\ promises = <<>>
    /\ last = [op |-> "new", result |-> "Ok"]

SpecFixture == InitFixture /\ [][Next]_vars

----------------------------------------------------------------------------
\* Properties

Answers(q) == questions[q].answers

AnswerIndexes(q) == 1..Len(questions[q].answers)

Author(q) == questions[q].author_account_id

Called(op, result) == last = [op |-> op, result |-> result]

\* C1: from the empty ledger, after any sequence of calls (successful or
\* failing), every balance of the stake ledger is >= 0: the debit of
\* set_correct_answer never takes more than the caller's balance.
C1_StakesNonNegative == \A account \in DOMAIN stakes : stakes[account] >= 0

\* A settlement has just debited its caller down to 0.
C1_Witness ==
    /\ Called("set_correct_answer", "Ok")
    /\ \E account \in DOMAIN stakes : stakes[account] = 0

\* C2: every question has at most one answer marked correct, and an answer
\* that is marked correct stays marked correct, the count staying exactly 1,
\* in every later state.
C2_AtMostOne == \A q \in DOMAIN questions : CorrectCount(questions[q]) <= 1

C2_StaysCorrect ==
    \A q \in DOMAIN questions : \A i \in AnswerIndexes(q) :
        Answers(q)[i].is_correct =>
            /\ q \in DOMAIN questions'
            /\ i <= Len(questions'[q].answers)
            /\ questions'[q].answers[i].id = Answers(q)[i].id
            /\ questions'[q].answers[i].is_correct
            /\ CorrectCount(questions'[q]) = 1

C2_OneCorrectAnswerForever == [](C2_AtMostOne) /\ [][C2_StaysCorrect]_vars

\* A question is resolved, has a second answer, and a further settlement of
\* it was attempted and refused.
C2_Witness ==
    /\ Called("set_correct_answer", "AlreadyResolved")
    /\ \E q \in DOMAIN questions :
           CorrectCount(questions[q]) = 1 /\ Len(Answers(q)) = 2

\* C3: an answer's is_correct flag goes from false to true only in a
\* set_correct_answer call made by the author of the answer's question; a
\* set_correct_answer call on an existing question by any other account
\* fails with NotAuthor and marks no answer correct.
C3_MarkedOnlyByAuthor ==
    \A q \in DOMAIN questions : \A i \in AnswerIndexes(q) :
        (/\ ~Answers(q)[i].is_correct
         /\ q \in DOMAIN questions'
         /\ i <= Len(questions'[q].answers)
         /\ questions'[q].answers[i].is_correct)
        => /\ last' = [op |-> "set_correct_answer", result |-> "Ok"]
           /\ SetCorrectAnswer(Author(q), q, Answers(q)[i].id)

C3_OthersRefused ==
    last'.op = "set_correct_answer" =>
        \A s \in Accounts : \A q \in DOMAIN questions : \A a \in AnswerIds(q) :
            (s # Author(q) /\ SetCorrectAnswer(s, q, a))
            => /\ last'.result = "NotAuthor"
               /\ questions' = questions

C3_OnlyAuthorMarksCorrect == [][C3_MarkedOnlyByAuthor /\ C3_OthersRefused]_vars

\* An account that is not the question's author has just been refused, on a
\* question that has an answer it could have been paid for.
C3_Witness ==
    /\ Called("set_correct_answer", "NotAuthor")
    /\ \E q \in DOMAIN questions : \E i \in AnswerIndexes(q) :
           Answers(q)[i].account_id = Author(q) /\ ~IsResolved(questions[q])

\* C4, as amended: no answer marked correct was written by the author of its
\* question; a set_correct_answer call by the question's author on an answer
\* of their own fails with SelfReward when the question has no answer marked
\* correct yet, and with AlreadyResolved when it has one.
C4_NoSelfRewarded ==
    \A q \in DOMAIN questions : \A i \in AnswerIndexes(q) :
        Answers(q)[i].is_correct => Answers(q)[i].account_id # Author(q)

C4_OwnAnswerRefused ==
    last'.op = "set_correct_answer" =>
        \A q \in DOMAIN questions : \A i \in AnswerIndexes(q) :
            (/\ Answers(q)[i].account_id = Author(q)
             /\ SetCorrectAnswer(Author(q), q, Answers(q)[i].id))
            => /\ last'.result = (IF IsResolved(questions[q])
                                  THEN "AlreadyResolved" ELSE "SelfReward")
               /\ questions' = questions

C4_NoSelfReward == [](C4_NoSelfRewarded) /\ [][C4_OwnAnswerRefused]_vars

\* The author of an open question has just been refused their own answer.
C4_Witness ==
    /\ Called("set_correct_answer", "SelfReward")
    /\ \E q \in DOMAIN questions : \E i \in AnswerIndexes(q) :
           Answers(q)[i].account_id = Author(q) /\ ~IsResolved(questions[q])

\* C4 as stated: such a call fails with SelfReward in every state, also on a
\* question that is already resolved.
C4_OwnAnswerAlwaysSelfReward ==
    last'.op = "set_correct_answer" =>
        \A q \in DOMAIN questions : \A i \in AnswerIndexes(q) :
            (/\ Answers(q)[i].account_id = Author(q)
             /\ SetCorrectAnswer(Author(q), q, Answers(q)[i].id))
            => last'.result = "SelfReward"

C4_Original == [](C4_NoSelfRewarded) /\ [][C4_OwnAnswerAlwaysSelfReward]_vars

\* C5: a successful set_correct_answer(q, a) by caller s takes question q's
\* reward off s's balance, emits one transfer of that reward to the answer's
\* author, marks the answer correct and adds the reward to the answer's
\* reward; every other balance, question and answer is unchanged.
C5_Settled(s, q, a) ==
    LET i == FindAnswer(Answers(q), a)
        reward == questions[q].reward
    IN  /\ i # 0
        /\ s \in DOMAIN stakes
        /\ DOMAIN stakes' = DOMAIN stakes
        /\ stakes'[s] = stakes[s] - reward
        /\ \A other \in DOMAIN stakes \ {s} : stakes'[other] = stakes[other]
        /\ promises' = <<[receiver |-> Answers(q)[i].account_id, amount |-> reward]>>
        /\ DOMAIN questions' = DOMAIN questions
        /\ \A other \in DOMAIN questions \ {q} : questions'[other] = questions[other]
        /\ questions'[q].content = questions[q].content
        /\ questions'[q].reward = questions[q].reward
        /\ questions'[q].author_account_id = questions[q].author_account_id
        /\ Len(questions'[q].answers) = Len(Answers(q))
        /\ \A n \in AnswerIndexes(q) \ {i} : questions'[q].answers[n] = Answers(q)[n]
        /\ questions'[q].answers[i] =
               [id |-> Answers(q)[i].id,
                content |-> Answers(q)[i].content,
                account_id |-> Answers(q)[i].account_id,
                reward |-> Answers(q)[i].reward + reward,
                is_correct |-> TRUE]

C5_SettlementEffect ==
    [][last' = [op |-> "set_correct_answer", result |-> "Ok"] =>
           \A s \in Accounts : \A q \in QuestionIds : \A a \in AnswerIds(q) :
               SetCorrectAnswer(s, q, a) => (q \in DOMAIN questions /\ C5_Settled(s, q, a))]_vars

\* The scenario of the specification: an upvoted answer has just been marked
\* correct, it holds the upvote and the question's reward, the author's
\* balance is 0, and the one transfer of the call goes to the answer's author.
C5_Witness ==
    /\ Called("set_correct_answer", "Ok")
    /\ \E q \in DOMAIN questions : \E i \in AnswerIndexes(q) :
           /\ Answers(q)[i].is_correct
           /\ Answers(q)[i].reward = 1 + questions[q].reward
           /\ stakes[Author(q)] = 0
           /\ promises = <<[receiver |-> Answers(q)[i].account_id,
                            amount |-> questions[q].reward]>>

\* C6, as amended: from the empty ledger the pooled stake of an author always
\* covers the reward of each of that author's unresolved questions, also
\* after other questions of the author were resolved; no set_correct_answer
\* call fails with InsufficientStake.
C6_StakeCoversOpenQuestions ==
    /\ last.result # "InsufficientStake"
    /\ \A q \in DOMAIN questions :
           ~IsResolved(questions[q]) =>
               /\ Author(q) \in DOMAIN stakes
               /\ stakes[Author(q)] >= questions[q].reward

\* An author has resolved one question and then, the call just made, a
\* different question of theirs.
C6_Witness ==
    /\ Called("set_correct_answer", "Ok")
    /\ \E q1 \in DOMAIN questions : \E q2 \in DOMAIN questions \ {q1} :
           /\ Author(q1) = Author(q2)
           /\ IsResolved(questions[q1])
           /\ IsResolved(questions[q2])

\* C6 as stated: some sequence of calls from the empty ledger leads to a
\* ledger where an author has resolved one question and a set_correct_answer
\* call of the same author on a different question of theirs fails with
\* InsufficientStake.  (Stated of the initial state: it is false there when no
\* such ledger can be reached.)
C6_Original ==
    Ledger = EmptyLedger =>
        \E L \in ReachableFrom(Ledger) :
            \E q \in DOMAIN L.questions : \E r \in DOMAIN L.questions \ {q} :
                LET s == L.questions[q].author_account_id
                IN  /\ L.questions[r].author_account_id = s
                    /\ IsResolved(L.questions[r])
                    /\ \E a \in AnswerIdsOf(L, q) :
                           set_correct_answer(L, s, q, a).result = "InsufficientStake"

\* C7: a successful create_question by caller s with attached value d has
\* d >= 10; it adds exactly one question, with reward d, author s and no
\* answers, and adds d to s's balance (an absent entry counts as 0); all
\* existing questions and the other balances are unchanged and no transfer is
\* emitted.
C7_Created(s, d, c) ==
    /\ d >= 10
    /\ \E id \in (DOMAIN questions') \ (DOMAIN questions) :
           /\ DOMAIN questions' = (DOMAIN questions) \cup {id}
           /\ questions'[id] = [content |-> c,
                                reward |-> d,
                                author_account_id |-> s,
                                answers |-> <<>>]
    /\ \A q \in DOMAIN questions : questions'[q] = questions[q]
    /\ DOMAIN stakes' = (DOMAIN stakes) \cup {s}
    /\ stakes'[s] = (IF s \in DOMAIN stakes THEN stakes[s] ELSE 0) + d
    /\ \A other \in DOMAIN stakes \ {s} : stakes'[other] = stakes[other]
    /\ promises' = <<>>

C7_CreateQuestionEffect ==
    [][last' = [op |-> "create_question", result |-> "Ok"] =>
           \A s \in Accounts : \A d \in Deposits : \A c \in Contents :
               CreateQuestion(s, d, c) => C7_Created(s, d, c)]_vars

\* A question with a reward above the minimum has just been created by an
\* account that had a balance before: the balance is now the two deposits.
C7_Witness ==
    /\ Called("create_question", "Ok")
    /\ \E q \in DOMAIN questions :
           /\ questions[q].reward = 11
           /\ Answers(q) = <<>>
           /\ stakes[Author(q)] = 21

\* C8: create_question with an attached value below 10 fails with
\* DepositTooLow and changes nothing: no question is created, no balance is
\* altered (and no transfer is emitted).
C8_LowDepositRefused ==
    [][last'.op = "create_question" =>
           \A s \in Accounts : \A d \in Deposits : \A c \in Contents :
               (d < 10 /\ CreateQuestion(s, d, c))
               => /\ last'.result = "DepositTooLow"
                  /\ stakes' = stakes
                  /\ questions' = questions
                  /\ promises' = <<>>]_vars

\* A create_question call has just been refused on a ledger that holds a
\* question and a balance.
C8_Witness ==
    /\ Called("create_question", "DepositTooLow")
    /\ DOMAIN questions # {}
    /\ DOMAIN stakes # {}

\* C9: the ids of the questions are 1..n, n the number of questions created;
\* each successful create_question assigns the previous maximum plus 1 (1 for
\* the first), and no call removes or reassigns an id.
C9_IdsAreOneToN == DOMAIN questions = 1..Cardinality(DOMAIN questions)

C9_NextId ==
    /\ (DOMAIN questions) \subseteq (DOMAIN questions')
    /\ last' = [op |-> "create_question", result |-> "Ok"] =>
           \A s \in Accounts : \A d \in Deposits : \A c \in Contents :
               CreateQuestion(s, d, c)
               => LET id == IF DOMAIN questions = {} THEN 1 ELSE Max(DOMAIN questions) + 1
                  IN  /\ id \notin DOMAIN questions
                      /\ \A q \in DOMAIN questions : q < id
                      /\ DOMAIN questions' = (DOMAIN questions) \cup {id}
                      /\ questions'[id].author_account_id = s
    /\ last'.op # "create_question" => DOMAIN questions' = DOMAIN questions

C9_QuestionIdsIncrease == [](C9_IdsAreOneToN) /\ [][C9_NextId]_vars

\* The second question has just been created, by the author of the first.
C9_Witness ==
    /\ Called("create_question", "Ok")
    /\ DOMAIN questions = {1, 2}
    /\ Author(1) = Author(2)

\* C10: within every question the answers carry the ids 1, 2, 3, ... in the
\* order they were appended; each successful create_answer on a question
\* appends an answer whose id is that question's last id plus 1, whatever the
\* answers of the other questions, and no call changes an id.
C10_IdsInAppendOrder ==
    \A q \in DOMAIN questions : \A i \in AnswerIndexes(q) : Answers(q)[i].id = i

C10_NextId ==
    /\ \A q \in DOMAIN questions : \A i \in AnswerIndexes(q) :
           /\ i <= Len(questions'[q].answers)
           /\ questions'[q].answers[i].id = Answers(q)[i].id
    /\ last' = [op |-> "create_answer", result |-> "Ok"] =>
           \A s \in Accounts : \A d \in Deposits : \A q \in QuestionIds : \A c \in Contents :
               CreateAnswer(s, d, q, c)
               => /\ q \in DOMAIN questions
                  /\ Len(questions'[q].answers) = Len(Answers(q)) + 1
                  /\ questions'[q].answers[Len(Answers(q)) + 1].id = Len(Answers(q)) + 1
                  /\ \A i \in AnswerIndexes(q) :
                         Answers(q)[i].id < questions'[q].answers[Len(Answers(q)) + 1].id
                  /\ \A other \in DOMAIN questions \ {q} :
                         questions'[other] = questions[other]

C10_AnswerIdsIncrease == [](C10_IdsInAppendOrder) /\ [][C10_NextId]_vars

\* The second question has just got its first answer, with id 1, while the
\* first question holds an answer with id 1 of its own.
C10_Witness ==
    /\ Called("create_answer", "Ok")
    /\ DOMAIN questions = {1, 2}
    /\ Len(Answers(1)) = 1 /\ Answers(1)[1].id = 1
    /\ Len(Answers(2)) = 1 /\ Answers(2)[1].id = 1

\* C11: a successful create_answer(q) by caller s has an attached value >= 1;
\* it appends exactly one answer to question q, with author s, reward 0 and
\* is_correct false; the stake ledger is unchanged (the attached value is
\* credited to no balance), no transfer is emitted, and every other question
\* and every existing answer is unchanged.
C11_Answered(s, d, q, c) ==
    /\ d >= 1
    /\ q \in DOMAIN questions
    /\ stakes' = stakes
    /\ promises' = <<>>
    /\ DOMAIN questions' = DOMAIN questions
    /\ \A other \in DOMAIN questions \ {q} : questions'[other] = questions[other]
    /\ questions'[q].content = questions[q].content
    /\ questions'[q].reward = questions[q].reward
    /\ questions'[q].author_account_id = questions[q].author_account_id
    /\ Len(questions'[q].answers) = Len(Answers(q)) + 1
    /\ \A i \in AnswerIndexes(q) : questions'[q].answers[i] = Answers(q)[i]
    /\ LET answer == questions'[q].answers[Len(Answers(q)) + 1]
       IN  /\ answer.account_id = s
           /\ answer.content = c
           /\ answer.reward = 0
           /\ answer.is_correct = FALSE

C11_CreateAnswerEffect ==
    [][last' = [op |-> "create_answer", result |-> "Ok"] =>
           \A s \in Accounts : \A d \in Deposits : \A q \in QuestionIds : \A c \in Contents :
               CreateAnswer(s, d, q, c) => C11_Answered(s, d, q, c)]_vars

\* The scenario of the specification: bob has just answered alice's question;
\* the answer has id 1 and reward 0 and is not correct, and the only balance
\* is still alice's deposit.
C11_Witness ==
    /\ Called("create_answer", "Ok")
    /\ DOMAIN questions = {1}
    /\ Author(1) = "alice"
    /\ Answers(1) = <<[id |-> 1, content |-> "How do I look?", account_id |-> "bob",
                       reward |-> 0, is_correct |-> FALSE]>>
    /\ stakes = [a \in {"alice"} |-> questions[1].reward]

\* C12: a successful upvote_answer(q, a) with attached value d > 0 adds exactly
\* d to the reward of answer a and emits exactly one transfer, of d, to that
\* answer's author; the stake ledger, the answer's is_correct flag and every
\* other answer and question are unchanged; a refused call does neither.  The
\* call succeeds whenever d > 0 and the question and the answer exist,
\* whether or not the question is resolved.
C12_Upvoted(d, q, a) ==
    LET i == FindAnswer(Answers(q), a)
    IN  /\ d > 0
        /\ i # 0
        /\ stakes' = stakes
        /\ promises' = <<[receiver |-> Answers(q)[i].account_id, amount |-> d]>>
        /\ DOMAIN questions' = DOMAIN questions
        /\ \A other \in DOMAIN questions \ {q} : questions'[other] = questions[other]
        /\ questions'[q].content = questions[q].content
        /\ questions'[q].reward = questions[q].reward
        /\ questions'[q].author_account_id = questions[q].author_account_id
        /\ Len(questions'[q].answers) = Len(Answers(q))
        /\ \A n \in AnswerIndexes(q) \ {i} : questions'[q].answers[n] = Answers(q)[n]
        /\ questions'[q].answers[i] =
               [id |-> Answers(q)[i].id,
                content |-> Answers(q)[i].content,
                account_id |-> Answers(q)[i].account_id,
                reward |-> Answers(q)[i].reward + d,
                is_correct |-> Answers(q)[i].is_correct]

C12_Succeeds ==
    \A d \in Deposits : \A q \in DOMAIN questions : \A i \in AnswerIndexes(q) :
        d > 0 => upvote_answer(Ledger, d, q, Answers(q)[i].id).result = "Ok"

C12_Step ==
    /\ last' = [op |-> "upvote_answer", result |-> "Ok"] =>
           \A d \in Deposits : \A q \in QuestionIds : \A a \in AnswerIds(q) :
               UpvoteAnswer(d, q, a) => (q \in DOMAIN questions /\ C12_Upvoted(d, q, a))
    /\ (last'.op = "upvote_answer" /\ last'.result # "Ok") =>
           (stakes' = stakes /\ questions' = questions /\ promises' = <<>>)

C12_UpvoteEffect == [](C12_Succeeds) /\ [][C12_Step]_vars

\* An answer that is marked correct has just been upvoted by 1: it holds the
\* question's reward and the upvote, and the transfer of 1 goes to its author.
C12_Witness ==
    /\ Called("upvote_answer", "Ok")
    /\ \E q \in DOMAIN questions : \E i \in AnswerIndexes(q) :
           /\ Answers(q)[i].is_correct
           /\ Answers(q)[i].reward = questions[q].reward + 1
           /\ stakes[Author(q)] = 0
           /\ promises = <<[receiver |-> Answers(q)[i].account_id, amount |-> 1]>>

\* C13: once a question has an answer marked correct, every set_correct_answer
\* call on it by its author, for an answer id that exists or one that does
\* not, fails with AlreadyResolved and changes nothing of the ledger; and no
\* call of any operation leaves a resolved question without a correct answer.
C13_Step ==
    \A q \in DOMAIN questions :
        IsResolved(questions[q]) =>
            /\ q \in DOMAIN questions'
            /\ IsResolved(questions'[q])
            /\ last'.op = "set_correct_answer" =>
                   \A a \in AnswerIds(q) :
                       SetCorrectAnswer(Author(q), q, a)
                       => /\ last'.result = "AlreadyResolved"
                          /\ stakes' = stakes
                          /\ questions' = questions
                          /\ promises' = <<>>

C13_ResolvedIsTerminal == [][C13_Step]_vars

\* The author of a resolved question whose only answer is the correct one has
\* just been refused a further settlement of it.
C13_Witness ==
    /\ Called("set_correct_answer", "AlreadyResolved")
    /\ \E q \in DOMAIN questions :
           /\ Len(Answers(q)) = 1
           /\ Answers(q)[1].is_correct
           /\ stakes[Author(q)] = 0

\* C14: every failing call of create_question, create_answer, upvote_answer or
\* set_correct_answer leaves the stakes and the questions with their answers
\* exactly as they were and emits no transfer; and the failure is met before
\* anything was written or transferred: what a failing call had in memory is
\* the ledger it started from, and it had created no promise (for
\* set_correct_answer also inside award_answer_author, for every stake
\* holder, every answer and every question's reward).
C14_FailureKeepsLedger ==
    last'.result # "Ok" =>
        /\ stakes' = stakes
        /\ questions' = questions
        /\ promises' = <<>>

C14_Untouched(outcome) ==
    outcome.result # "Ok" =>
        /\ outcome.stakes = stakes
        /\ outcome.questions = questions
        /\ outcome.promises = <<>>

C14_FailsBeforeWriting ==
    /\ \A s \in Accounts : \A d \in Deposits : \A c \in Contents :
           C14_Untouched(create_question(Ledger, s, d, c))
    /\ \A s \in Accounts : \A d \in Deposits : \A q \in QuestionIds : \A c \in Contents :
           C14_Untouched(create_answer(Ledger, s, d, q, c))
    /\ \A d \in Deposits : \A q \in QuestionIds : \A a \in AnswerIds(q) :
           C14_Untouched(upvote_answer(Ledger, d, q, a))
    /\ \A s \in Accounts : \A q \in QuestionIds : \A a \in AnswerIds(q) :
           C14_Untouched(set_correct_answer(Ledger, s, q, a))
    /\ \A s \in Accounts : \A q \in DOMAIN questions : \A i \in AnswerIndexes(q) :
           LET award == award_answer_author(stakes, s, Answers(q)[i], questions[q].reward)
           IN  award.result # "Ok" => (award.stakes = stakes /\ award.promises = <<>>)

C14_FailuresChangeNothing == [](C14_FailsBeforeWriting) /\ [][C14_FailureKeepsLedger]_vars

\* A settlement has just failed at the last of its checks, in
\* award_answer_author: the stake ledger has no entry at all, and the answer
\* it named is still not correct.
C14_Witness ==
    /\ Called("set_correct_answer", "InsufficientStake")
    /\ stakes = <<>>
    /\ promises = <<>>
    /\ \E q \in DOMAIN questions : Len(Answers(q)) > 0 /\ ~IsResolved(questions[q])

\* C15: a set_correct_answer call that passes the first five checks (the
\* question exists, the caller is its author, it has no correct answer yet,
\* the answer exists, the answer is not the caller's) while the caller has no
\* stake entry or a balance below the question's reward fails with
\* InsufficientStake: no balance changes, no transfer is emitted, the answer
\* is not marked correct, and the question's reward field keeps its value.
C15_PassesFiveChecks(s, q, a) ==
    /\ q \in DOMAIN questions
    /\ Author(q) = s
    /\ ~IsResolved(questions[q])
    /\ FindAnswer(Answers(q), a) # 0
    /\ Answers(q)[FindAnswer(Answers(q), a)].account_id # s

C15_StakeTooLow(s, q) == s \notin DOMAIN stakes \/ stakes[s] < questions[q].reward

C15_Step ==
    last'.op = "set_correct_answer" =>
        \A s \in Accounts : \A q \in QuestionIds : \A a \in AnswerIds(q) :
            (/\ C15_PassesFiveChecks(s, q, a)
             /\ C15_StakeTooLow(s, q)
             /\ SetCorrectAnswer(s, q, a))
            => /\ last'.result = "InsufficientStake"
               /\ stakes' = stakes
               /\ promises' = <<>>
               /\ questions' = questions
               /\ ~questions'[q].answers[FindAnswer(Answers(q), a)].is_correct
               /\ questions'[q].reward = questions[q].reward

C15_InsufficientStakeRefused == [][C15_Step]_vars

\* The scenario of the specification: the author's pooled balance went to
\* another question's settlement; the author has an entry, of less than the
\* reward of a question of theirs that is open and has an answer by someone
\* else, and a settlement has just been refused.
C15_Witness ==
    /\ Called("set_correct_answer", "InsufficientStake")
    /\ \E q \in DOMAIN questions : \E r \in DOMAIN questions \ {q} :
           /\ Author(q) = Author(r)
           /\ IsResolved(questions[r])
           /\ ~IsResolved(questions[q])
           /\ Author(q) \in DOMAIN stakes
           /\ stakes[Author(q)] < questions[q].reward
           /\ \E i \in AnswerIndexes(q) : Answers(q)[i].account_id # Author(q)

\* C16: in every step no reward of an answer decreases.  An answer starts with
\* reward 0; its reward grows by the attached value in a successful upvote of
\* that answer, by the question's reward in the settlement that marks it
\* correct (which happens to an answer at most once, the answer not being
\* correct before), and is unchanged by every other call.
C16_Growth(q, i) ==
    LET old == Answers(q)[i]
        new == questions'[q].answers[i]
    IN  /\ new.reward >= old.reward
        /\ \/ new.reward = old.reward
           \/ \E d \in Deposits :
                  /\ d > 0
                  /\ new.reward = old.reward + d
                  /\ UpvoteAnswer(d, q, old.id)
           \/ /\ ~old.is_correct
              /\ new.is_correct
              /\ new.reward = old.reward + questions[q].reward
              /\ last'.result = "Ok"
              /\ SetCorrectAnswer(Author(q), q, old.id)

C16_Step ==
    /\ \A q \in DOMAIN questions : \A i \in AnswerIndexes(q) :
           /\ q \in DOMAIN questions'
           /\ i <= Len(questions'[q].answers)
           /\ C16_Growth(q, i)
    /\ \A q \in DOMAIN questions' : \A i \in 1..Len(questions'[q].answers) :
           (q \notin DOMAIN questions \/ i > Len(Answers(q)))
           => questions'[q].answers[i].reward = 0

C16_RewardsNeverDecrease == [][C16_Step]_vars

\* An answer that was upvoted by 1 and then marked correct has just been
\* upvoted by 1 again: it holds the question's reward and both upvotes.
C16_Witness ==
    /\ Called("upvote_answer", "Ok")
    /\ \E q \in DOMAIN questions : \E i \in AnswerIndexes(q) :
           /\ Answers(q)[i].is_correct
           /\ Answers(q)[i].reward = questions[q].reward + 2

\* C17: set_correct_answer reports the first violated precondition in the
\* order QuestionNotFound, NotAuthor, AlreadyResolved, AnswerNotFound,
\* SelfReward, InsufficientStake, and succeeds when none is violated: a
\* non-author on a resolved question gets NotAuthor, the author naming a
\* non-existent answer of a resolved question gets AlreadyResolved, the author
\* naming their own answer with an insufficient balance gets SelfReward.
C17_Order ==
    <<"QuestionNotFound", "NotAuthor", "AlreadyResolved", "AnswerNotFound",
      "SelfReward", "InsufficientStake">>

C17_Violated(kind, s, q, a) ==
    IF q \notin DOMAIN questions THEN kind = "QuestionNotFound"
    ELSE CASE kind = "QuestionNotFound" -> FALSE
           [] kind = "NotAuthor" -> Author(q) # s
           [] kind = "AlreadyResolved" ->
                  \E i \in AnswerIndexes(q) : Answers(q)[i].is_correct
           [] kind = "AnswerNotFound" ->
                  \A i \in AnswerIndexes(q) : Answers(q)[i].id # a
           [] kind = "SelfReward" ->
                  \E i \in AnswerIndexes(q) :
                      Answers(q)[i].id = a /\ Answers(q)[i].account_id = s
           [] kind = "InsufficientStake" ->
                  s \notin DOMAIN stakes \/ stakes[s] < questions[q].reward

C17_FirstViolated(s, q, a) ==
    LET violated == {n \in DOMAIN C17_Order : C17_Violated(C17_Order[n], s, q, a)}
    IN  IF violated = {} THEN "Ok"
        ELSE C17_Order[CHOOSE n \in violated : \A m \in violated : n <= m]

C17_Step ==
    last'.op = "set_correct_answer" =>
        \A s \in Accounts : \A q \in QuestionIds : \A a \in AnswerIds(q) :
            SetCorrectAnswer(s, q, a) => last'.result = C17_FirstViolated(s, q, a)

C17_ChecksInOrder == [][C17_Step]_vars

\* The author of the only question, whose only answer is their own and who
\* has no stake entry, has just been refused: with SelfReward, not with
\* InsufficientStake.
C17_Witness ==
    /\ Called("set_correct_answer", "SelfReward")
    /\ DOMAIN questions = {1}
    /\ Len(Answers(1)) = 1
    /\ Answers(1)[1].account_id = Author(1)
    /\ stakes = <<>>

\* C18: no call changes the id, the reward or the author of a question that
\* exists (a settlement reads the reward and leaves it as it is), and the
\* answer list of a question changes only by an append at its end: every
\* existing answer keeps its position, id, author and content, and none is
\* removed.
C18_Step ==
    \A q \in DOMAIN questions :
        /\ q \in DOMAIN questions'
        /\ questions'[q].reward = questions[q].reward
        /\ questions'[q].author_account_id = questions[q].author_account_id
        /\ Len(questions'[q].answers) \in {Len(Answers(q)), Len(Answers(q)) + 1}
        /\ \A i \in AnswerIndexes(q) :
               /\ questions'[q].answers[i].id = Answers(q)[i].id
               /\ questions'[q].answers[i].account_id = Answers(q)[i].account_id
               /\ questions'[q].answers[i].content = Answers(q)[i].content

C18_QuestionsAreFixed == [][C18_Step]_vars

\* A question with reward 11 and two answers has just been settled on its
\* second answer: the author's balance is spent, the reward field still
\* shows 11.
C18_Witness ==
    /\ Called("set_correct_answer", "Ok")
    /\ \E q \in DOMAIN questions :
           /\ questions[q].reward = 11
           /\ Len(Answers(q)) = 2
           /\ Answers(q)[2].is_correct
           /\ stakes[Author(q)] = 0

\* stakes.get(&account_id).unwrap_or(&0u128)
StakeOf(account_id) == IF account_id \in DOMAIN stakes THEN stakes[account_id] ELSE 0

\* The sum of the rewards of the questions among ids that account_id authored
\* and that have no answer marked correct.
RECURSIVE OpenRewards(_, _)
OpenRewards(ids, account_id) ==
    IF ids = {} THEN 0
    ELSE LET q == CHOOSE x \in ids : TRUE
         IN  (IF Author(q) = account_id /\ ~IsResolved(questions[q])
              THEN questions[q].reward ELSE 0)
             + OpenRewards(ids \ {q}, account_id)

\* C19: in every state reached from the empty ledger, the stake balance of
\* each account (0 for an account without an entry) is the sum of the rewards
\* of the unresolved questions that account authored; hence the balance of
\* the author of an open question is at least that question's reward.
C19_StakeIsOpenRewards ==
    /\ \A account \in Accounts \cup DOMAIN stakes :
           StakeOf(account) = OpenRewards(DOMAIN questions, account)
    /\ \A q \in DOMAIN questions :
           ~IsResolved(questions[q]) => StakeOf(Author(q)) >= questions[q].reward

\* An author with two questions, of rewards 10 and 11, has just settled one
\* of them: the balance is the reward of the other.
C19_Witness ==
    /\ Called("set_correct_answer", "Ok")
    /\ \E q \in DOMAIN questions : \E r \in DOMAIN questions \ {q} :
           /\ Author(q) = Author(r)
           /\ IsResolved(questions[q])
           /\ ~IsResolved(questions[r])
           /\ questions[q].reward # questions[r].reward
           /\ stakes[Author(r)] = questions[r].reward

\* The value a sequence of transfers sends to account_id.
RECURSIVE TransferredTo(_, _)
TransferredTo(transfers, account_id) ==
    IF transfers = <<>> THEN 0
    ELSE (IF Head(transfers).receiver = account_id THEN Head(transfers).amount ELSE 0)
         + TransferredTo(Tail(transfers), account_id)

\* The sum of the reward fields of the answers in a list that account_id authored.
RECURSIVE RewardsIn(_, _)
RewardsIn(answers, account_id) ==
    IF answers = <<>> THEN 0
    ELSE (IF Head(answers).account_id = account_id THEN Head(answers).reward ELSE 0)
         + RewardsIn(Tail(answers), account_id)

\* The same sum over the questions among ids of a questions map.
RECURSIVE RewardsOf(_, _, _)
RewardsOf(qs, ids, account_id) ==
    IF ids = {} THEN 0
    ELSE LET q == CHOOSE x \in ids : TRUE
         IN  RewardsIn(qs[q].answers, account_id) + RewardsOf(qs, ids \ {q}, account_id)

\* C20: in every state reached from the empty ledger, the total value of the
\* transfers emitted to an account equals the sum of the reward fields of the
\* answers that account authored.  Both are 0 in the empty ledger, and in
\* every step the transfers the call emits to each account are worth exactly
\* what the call adds to the rewards of that account's answers: one transfer
\* per upvote and per settlement, and no other transfer.
C20_NothingYet ==
    /\ promises = <<>>
    /\ \A account \in Accounts : RewardsOf(questions, DOMAIN questions, account) = 0

C20_Step ==
    /\ \A account \in Accounts \cup {promises'[n].receiver : n \in DOMAIN promises'} :
           TransferredTo(promises', account)
               = RewardsOf(questions', DOMAIN questions', account)
                     - RewardsOf(questions, DOMAIN questions, account)
    /\ Len(promises') = (IF last'.result = "Ok"
                            /\ last'.op \in {"upvote_answer", "set_correct_answer"}
                         THEN 1 ELSE 0)

C20_TransfersEqualRewards == C20_NothingYet /\ [][C20_Step]_vars

\* An account has two answers to one question, one settled and one upvoted
\* by 1, the upvote being the call just made: its answers hold, and it was
\* sent, the question's reward plus 1.
C20_Witness ==
    /\ Called("upvote_answer", "Ok")
    /\ \E q \in DOMAIN questions :
           /\ Len(Answers(q)) = 2
           /\ Answers(q)[1].account_id = Answers(q)[2].account_id
           /\ Answers(q)[1].reward > 0
           /\ Answers(q)[2].reward > 0
           /\ RewardsOf(questions, DOMAIN questions, Answers(q)[1].account_id)
                  = questions[q].reward + 1
           /\ TransferredTo(promises, Answers(q)[1].account_id) = 1

====
